---- MODULE Spec2Model ----
(***************************************************************************)
(* Memory subsystem of mini-6502-remu: the RAM/ROM devices                 *)
(* (src/devices/memory.rs), the MemoryMap router                           *)
(* (src/devices/memory_map.rs), and the Emulator that owns a router and a  *)
(* CPU (src/emulator/emulator.rs, src/cpu/cpu.rs).                         *)
(*                                                                         *)
(* Representation.                                                         *)
(*  - A u32 is a pair <<hi, lo>> of 16-bit limbs, hi the high half: the    *)
(*    code adds u32 values (offset + size) and the sum can pass 2^32.      *)
(*    A u16 address and a u8 byte are plain naturals.                      *)
(*  - A Vec<u8> is [len, nz]: its length and the set of <<index, byte>> of  *)
(*    its nonzero cells; every other cell below len holds 0.  The length   *)
(*    is a usize, written as a pair like a u32; its high part reaches      *)
(*    Limb and beyond for a vector of 2^32 bytes or more.                  *)
(*  - A Result is [tag, val, err]: Ok(v), Err(e), or a panic of the        *)
(*    thread (tag "Panic", err the panic's cause).                         *)
(*  - cpu is the register file of the emulator's CPU, a record of its six  *)
(*    registers' values.                                                   *)
(*  - overflow_checks is the build's setting of arithmetic overflow        *)
(*    checks: with them `a + b` on u32 panics on overflow, without them    *)
(*    it wraps modulo 2^32.                                                *)
(***************************************************************************)
EXTENDS Naturals, Sequences, FiniteSets

VARIABLES devices, dev, cpu, last, aborted, overflow_checks

vars == <<devices, dev, cpu, last, aborted, overflow_checks>>

(***************************************************************************)
(* Bounds of the model.                                                    *)
(***************************************************************************)
MaxEntries == 2
MaxSize == 3
MaxOffset == 2
MaxLen == 2

(***************************************************************************)
(* Machine integers.                                                       *)
(***************************************************************************)
Limb == 65536
U16Max == 65535

U32(n) == <<n \div Limb, n % Limb>>
U32Max == <<U16Max, U16Max>>

Lt(a, b) == a[1] < b[1] \/ (a[1] = b[1] /\ a[2] < b[2])
Le(a, b) == ~Lt(b, a)

\* The exact sum of two u32 values; its high limb reaches Limb on overflow.
Sum(a, b) == LET lo == a[2] + b[2] IN <<a[1] + b[1] + (lo \div Limb), lo % Limb>>
Overflows(a, b) == Sum(a, b)[1] >= Limb
WrappingAdd(a, b) == <<Sum(a, b)[1] % Limb, Sum(a, b)[2]>>

\* `n as u32` on a usize: the low 32 bits.
AsU32(n) == <<n[1] % Limb, n[2]>>

(***************************************************************************)
(* Results.                                                                *)
(***************************************************************************)
Ok(v) == [tag |-> "Ok", val |-> v, err |-> "None"]
Err(e) == [tag |-> "Err", val |-> 0, err |-> e]
Panic(why) == [tag |-> "Panic", val |-> 0, err |-> why]

(***************************************************************************)
(* Vec<u8>.                                                                *)
(***************************************************************************)
\* vec![0; n]
VecZero(n) == [len |-> n, nz |-> {}]
\* A vector holding the bytes of the sequence s.
VecOf(s) == [len |-> U32(Len(s)),
             nz |-> {<<i - 1, s[i]>> : i \in {j \in 1..Len(s) : s[j] # 0}}]
\* v[i], for i < v.len
VecGet(v, i) == IF \E p \in v.nz : p[1] = i
                THEN (CHOOSE p \in v.nz : p[1] = i)[2]
                ELSE 0
\* v[i] = b, for i < v.len
VecSet(v, i, b) == [v EXCEPT !.nz = {p \in @ : p[1] # i}
                                     \cup (IF b = 0 THEN {} ELSE {<<i, b>>})]
VecInBounds(v, i) == Lt(U32(i), v.len)

(***************************************************************************)
(* `address >= offset && address < offset + size` on u32 values: "T", "F"  *)
(* or "P" when the sum overflows in a build that checks overflow.  The     *)
(* right operand of && is evaluated only when the left one is true.        *)
(***************************************************************************)
\* The range check with its upper bound taken inclusive (`<=` for `<`).
InRange_UpperInclusive(address, offset, size, checks) ==
    IF Lt(address, offset) THEN "F"
    ELSE IF Overflows(offset, size) /\ checks THEN "P"
    ELSE IF Le(address, WrappingAdd(offset, size)) THEN "T"
    ELSE "F"

InRange(address, offset, size, checks) ==
    IF Lt(address, offset) THEN "F"
    ELSE IF Overflows(offset, size) /\ checks THEN "P"
    ELSE IF Lt(address, WrappingAdd(offset, size)) THEN "T"
    ELSE "F"

(***************************************************************************)
(* Devices: [kind, data, size, offset].                                    *)
(***************************************************************************)
ROM_new(data, size, offset) ==
    [kind |-> "ROM", data |-> data, size |-> size, offset |-> offset]

RAM_new(data, size, offset) ==
    [kind |-> "RAM", data |-> data, size |-> size, offset |-> offset]

\* self.data[(address - self.offset) as usize], reached only with
\* address >= self.offset, so that self.offset fits 16 bits.
DataRead(d, address) ==
    LET i == address - d.offset[2] IN
    IF VecInBounds(d.data, i) THEN Ok(VecGet(d.data, i))
    ELSE Panic("index out of bounds")

ROM_read(d, address, checks) ==
    LET r == InRange(U32(address), d.offset, d.size, checks) IN
    IF r = "P" THEN Panic("attempt to add with overflow")
    ELSE IF r = "T" THEN DataRead(d, address)
    ELSE Err("OutOfBounds")

RAM_read(d, address, checks) ==
    LET r == InRange(U32(address), d.offset, d.size, checks) IN
    IF r = "P" THEN Panic("attempt to add with overflow")
    ELSE IF r = "T" THEN DataRead(d, address)
    ELSE Err("OutOfBounds")

\* A write or load gives [res, dev]: the result and the device afterwards.
\* The ROM write that stores the value when the address is in the storage.
ROM_write_Stores(d, address, value) ==
    IF /\ d.offset[1] = 0
       /\ address >= d.offset[2]
       /\ VecInBounds(d.data, address - d.offset[2])
    THEN [res |-> Ok(0),
          dev |-> [d EXCEPT !.data = VecSet(@, address - d.offset[2], value)]]
    ELSE [res |-> Ok(0), dev |-> d]

ROM_write(d, address, value) == [res |-> Ok(0), dev |-> d]

\* The write with the upper bound of its range check taken inclusive.
RAM_write_UpperInclusive(d, address, value, checks) ==
    LET r == InRange_UpperInclusive(U32(address), d.offset, d.size, checks)
        i == address - d.offset[2] IN
    IF r = "P" THEN [res |-> Panic("attempt to add with overflow"), dev |-> d]
    ELSE IF r = "T"
    THEN IF VecInBounds(d.data, i)
         THEN [res |-> Ok(0), dev |-> [d EXCEPT !.data = VecSet(@, i, value)]]
         ELSE [res |-> Panic("index out of bounds"), dev |-> d]
    ELSE [res |-> Err("OutOfBounds"), dev |-> d]

\* The write that stores at index address + 1 - offset, one cell too high.
RAM_write_NextCell(d, address, value, checks) ==
    LET r == InRange(U32(address), d.offset, d.size, checks)
        i == address + 1 - d.offset[2] IN
    IF r = "P" THEN [res |-> Panic("attempt to add with overflow"), dev |-> d]
    ELSE IF r = "T"
    THEN IF VecInBounds(d.data, i)
         THEN [res |-> Ok(0), dev |-> [d EXCEPT !.data = VecSet(@, i, value)]]
         ELSE [res |-> Panic("index out of bounds"), dev |-> d]
    ELSE [res |-> Err("OutOfBounds"), dev |-> d]

RAM_write(d, address, value, checks) ==
    LET r == InRange(U32(address), d.offset, d.size, checks)
        i == address - d.offset[2] IN
    IF r = "P" THEN [res |-> Panic("attempt to add with overflow"), dev |-> d]
    ELSE IF r = "T"
    THEN IF VecInBounds(d.data, i)
         THEN [res |-> Ok(0), dev |-> [d EXCEPT !.data = VecSet(@, i, value)]]
         ELSE [res |-> Panic("index out of bounds"), dev |-> d]
    ELSE [res |-> Err("OutOfBounds"), dev |-> d]

\* clear, resize(size, 0), then the copy loop `self.data[i] = data[i]`,
\* which stores the image's cells below size (and panics at index size when
\* the image is longer).
LoadData(d, image) ==
    [len |-> d.size, nz |-> {p \in image.nz : Lt(U32(p[1]), d.size)}]

\* The length test is made on `data.len() as u32`; an image whose length
\* passes it and is longer than size is copied up to size, then the loop
\* panics.
ROM_load(d, image) ==
    IF Lt(d.size, AsU32(image.len))
    THEN [res |-> Err("OutOfBounds"), dev |-> d]
    ELSE IF Lt(d.size, image.len)
    THEN [res |-> Panic("index out of bounds"),
          dev |-> [d EXCEPT !.data = LoadData(d, image)]]
    ELSE [res |-> Ok(0), dev |-> [d EXCEPT !.data = LoadData(d, image)]]

RAM_load(d, image) ==
    IF Lt(d.size, AsU32(image.len))
    THEN [res |-> Err("OutOfBounds"), dev |-> d]
    ELSE IF Lt(d.size, image.len)
    THEN [res |-> Panic("index out of bounds"),
          dev |-> [d EXCEPT !.data = LoadData(d, image)]]
    ELSE [res |-> Ok(0), dev |-> [d EXCEPT !.data = LoadData(d, image)]]

ROM_type_of(d) == "ROM"
RAM_type_of(d) == "RAM"

\* The Memory trait: a call on Box<dyn Memory> goes to the device's impl.
Memory_read(d, address, checks) ==
    IF d.kind = "ROM" THEN ROM_read(d, address, checks)
    ELSE RAM_read(d, address, checks)

Memory_write(d, address, value, checks) ==
    IF d.kind = "ROM" THEN ROM_write(d, address, value)
    ELSE RAM_write(d, address, value, checks)

Memory_load(d, image) ==
    IF d.kind = "ROM" THEN ROM_load(d, image) ELSE RAM_load(d, image)

Memory_type_of(d) ==
    IF d.kind = "ROM" THEN ROM_type_of(d) ELSE RAM_type_of(d)

(***************************************************************************)
(* Indexed access, device[index].  `self.offset as u16` keeps the low 16   *)
(* bits of the offset; `index - offset` on u16 panics below zero in a      *)
(* build with overflow checks and wraps modulo 2^16 in one without; the    *)
(* vector then checks the index against its own length.                    *)
(***************************************************************************)
IndexOf(d, index) == (index + Limb - d.offset[2]) % Limb

ROM_index(d, index, checks) ==
    IF index < d.offset[2] /\ checks
    THEN Panic("attempt to subtract with overflow")
    ELSE IF VecInBounds(d.data, IndexOf(d, index))
    THEN Ok(VecGet(d.data, IndexOf(d, index)))
    ELSE Panic("index out of bounds")

RAM_index(d, index, checks) ==
    IF index < d.offset[2] /\ checks
    THEN Panic("attempt to subtract with overflow")
    ELSE IF VecInBounds(d.data, IndexOf(d, index))
    THEN Ok(VecGet(d.data, IndexOf(d, index)))
    ELSE Panic("index out of bounds")

\* device[index] = value, on RAM: [res, dev].
RAM_index_mut(d, index, value, checks) ==
    IF index < d.offset[2] /\ checks
    THEN [res |-> Panic("attempt to subtract with overflow"), dev |-> d]
    ELSE IF VecInBounds(d.data, IndexOf(d, index))
    THEN [res |-> Ok(0),
          dev |-> [d EXCEPT !.data = VecSet(@, IndexOf(d, index), value)]]
    ELSE [res |-> Panic("index out of bounds"), dev |-> d]

Device_index(d, index, checks) ==
    IF d.kind = "ROM" THEN ROM_index(d, index, checks)
    ELSE RAM_index(d, index, checks)

(***************************************************************************)
(* MemoryMap: devices is the Vec<MemoryMapEntry>, a sequence of            *)
(* [name, device, size, offset].                                           *)
(***************************************************************************)
MemoryMapEntry_new(name, device, size, offset) ==
    [name |-> name, device |-> device, size |-> size, offset |-> offset]

MemoryMap_new == <<>>

count(devs) == Len(devs)

\* The scan of read and write over the entries from i on: the first entry
\* whose range check is true ("entry", at its index), "none" when every check
\* is false, "panic" when a check overflows before any is true.
RECURSIVE FirstMatch(_, _, _, _)
FirstMatch(devs, address, checks, i) ==
    IF i > Len(devs) THEN [hit |-> "none", at |-> 0]
    ELSE LET r == InRange(U32(address), devs[i].offset, devs[i].size, checks) IN
         IF r = "P" THEN [hit |-> "panic", at |-> i]
         ELSE IF r = "T" THEN [hit |-> "entry", at |-> i]
         ELSE FirstMatch(devs, address, checks, i + 1)

read(devs, address, checks) ==
    LET m == FirstMatch(devs, address, checks, 1) IN
    IF m.hit = "panic" THEN Panic("attempt to add with overflow")
    ELSE IF m.hit = "entry" THEN Memory_read(devs[m.at].device, address, checks)
    ELSE Err("Unmapped")

\* [res, devs]: the result and the entries afterwards.
write(devs, address, value, checks) ==
    LET m == FirstMatch(devs, address, checks, 1) IN
    IF m.hit = "panic"
    THEN [res |-> Panic("attempt to add with overflow"), devs |-> devs]
    ELSE IF m.hit = "entry"
    THEN LET w == Memory_write(devs[m.at].device, address, value, checks) IN
         [res |-> w.res, devs |-> [devs EXCEPT ![m.at].device = w.dev]]
    ELSE [res |-> Err("Unmapped"), devs |-> devs]

\* `offset + size > e.offset && offset + size <= e.offset + e.size`
EndInside(offset, size, e, checks) ==
    IF Overflows(offset, size) /\ checks THEN "P"
    ELSE LET end == WrappingAdd(offset, size) IN
         IF ~Lt(e.offset, end) THEN "F"
         ELSE IF Overflows(e.offset, e.size) /\ checks THEN "P"
         ELSE IF Le(end, WrappingAdd(e.offset, e.size)) THEN "T"
         ELSE "F"

\* The two checks of insert against the entries from i on.
RECURSIVE OverlapScan(_, _, _, _, _)
OverlapScan(devs, size, offset, checks, i) ==
    IF i > Len(devs) THEN "F"
    ELSE LET a == InRange(offset, devs[i].offset, devs[i].size, checks) IN
         IF a # "F" THEN a
         ELSE LET b == EndInside(offset, size, devs[i], checks) IN
              IF b # "F" THEN b
              ELSE OverlapScan(devs, size, offset, checks, i + 1)

\* The insert that puts the new entry before the existing ones.
insert_Prepends(devs, name, device, size, offset, checks) ==
    LET o == OverlapScan(devs, size, offset, checks, 1) IN
    IF o = "P"
    THEN [res |-> Panic("attempt to add with overflow"), devs |-> devs]
    ELSE IF o = "T" THEN [res |-> Err("Overlap"), devs |-> devs]
    ELSE [res |-> Ok(0),
          devs |-> <<MemoryMapEntry_new(name, device, size, offset)>> \o devs]

insert(devs, name, device, size, offset, checks) ==
    LET o == OverlapScan(devs, size, offset, checks, 1) IN
    IF o = "P"
    THEN [res |-> Panic("attempt to add with overflow"), devs |-> devs]
    ELSE IF o = "T" THEN [res |-> Err("Overlap"), devs |-> devs]
    ELSE [res |-> Ok(0),
          devs |-> Append(devs, MemoryMapEntry_new(name, device, size, offset))]

\* The allocation of vec![0; size as usize] is taken to succeed.
create(devs, name, memory_type, size, offset, checks) ==
    LET memory == IF memory_type = "ROM"
                  THEN ROM_new(VecZero(size), size, offset)
                  ELSE RAM_new(VecZero(size), size, offset) IN
    insert(devs, name, memory, size, offset, checks)

MemoryMapEntry_device_type(e) == Memory_type_of(e.device)

\* print_row formats `self.offset + self.size - 1` as the end address; what
\* it prints is no state.
MemoryMapEntry_print_row(e, checks) ==
    IF checks /\ Overflows(e.offset, e.size)
    THEN Panic("attempt to add with overflow")
    ELSE IF checks /\ WrappingAdd(e.offset, e.size) = U32(0)
    THEN Panic("attempt to subtract with overflow")
    ELSE Ok(0)

\* The rows of print_table from entry i on; the first panic ends the call.
RECURSIVE PrintRows(_, _, _)
PrintRows(devs, checks, i) ==
    IF i > Len(devs) THEN Ok(0)
    ELSE IF MemoryMapEntry_print_row(devs[i], checks).tag = "Panic"
    THEN MemoryMapEntry_print_row(devs[i], checks)
    ELSE PrintRows(devs, checks, i + 1)

print_table(devs, checks) == PrintRows(devs, checks, 1)

(***************************************************************************)
(* CPU: the values of its six registers (ByteRegister, and WordRegister    *)
(* for pc).                                                                *)
(***************************************************************************)
Registers == {"x", "y", "a", "pc", "sp", "flags"}

CPU_new == [r \in Registers |-> 0]

\* ByteRegister::set, WordRegister::set on the register r.
Register_set(c, r, value) == [c EXCEPT ![r] = value]

\* The reset with pc left as it is.
CPU_reset_KeepsPc(c) ==
    Register_set(Register_set(Register_set(Register_set(Register_set(
        c, "x", 0), "y", 0), "a", 0), "sp", 0), "flags", 0)

CPU_reset(c) ==
    Register_set(Register_set(Register_set(Register_set(Register_set(
        Register_set(c, "x", 0), "y", 0), "a", 0), "pc", 0), "sp", 0), "flags", 0)

(***************************************************************************)
(* Emulator: a CPU and a MemoryMap.                                        *)
(***************************************************************************)
\* .unwrap() on the [res, devs] of a call: an Err becomes a panic.
Unwrap(c) ==
    IF c.res.tag = "Err"
    THEN [res |-> Panic("unwrap on an Err value"),
          devs |-> c.devs]
    ELSE c

\* The three creates of init, each unwrapped; a panic ends the call.
Emulator_init(devs, checks) ==
    LET ram == Unwrap(create(devs, "RAM", "RAM", U32(16384), U32(0), checks)) IN
    IF ram.res.tag # "Ok" THEN ram
    ELSE LET io == Unwrap(create(ram.devs, "IO", "MMIO",
                                 U32(16384), U32(16384), checks)) IN
         IF io.res.tag # "Ok" THEN io
         ELSE Unwrap(create(io.devs, "ROM", "ROM",
                            U32(32768), U32(32768), checks))

Emulator_warm_reset(c) == CPU_reset(c)

\* `for i in lo..hi { self.memory_map.write(i, 0).unwrap(); }`: the writes
\* in increasing order of i, the lower half of the range before the upper
\* one; the first write that is not Ok ends the loop with a panic.
RECURSIVE ZeroWrites(_, _, _, _)
ZeroWrites(devs, lo, hi, checks) ==
    IF lo >= hi THEN [res |-> Ok(0), devs |-> devs]
    ELSE IF hi = lo + 1 THEN Unwrap(write(devs, lo, 0, checks))
    ELSE LET mid == lo + ((hi - lo) \div 2) IN
         LET low == ZeroWrites(devs, lo, mid, checks) IN
         IF low.res.tag # "Ok" THEN low
         ELSE ZeroWrites(low.devs, mid, hi, checks)

ColdResetEnd == 16384

\* The cold reset whose loop stops one address short.
Emulator_cold_reset_StopsShort(c, devs, checks) ==
    LET z == ZeroWrites(devs, 0, ColdResetEnd - 1, checks) IN
    IF z.res.tag # "Ok" THEN [res |-> z.res, devs |-> z.devs, cpu |-> c]
    ELSE [res |-> Ok(0), devs |-> z.devs, cpu |-> CPU_reset(c)]

\* [res, devs, cpu]: the CPU is reset only when the loop has finished.
Emulator_cold_reset(c, devs, checks) ==
    LET z == ZeroWrites(devs, 0, ColdResetEnd, checks) IN
    IF z.res.tag # "Ok" THEN [res |-> z.res, devs |-> z.devs, cpu |-> c]
    ELSE [res |-> Ok(0), devs |-> z.devs, cpu |-> CPU_reset(c)]

(***************************************************************************)
(* Inputs of the calls.  A range is <<size, offset>>: the small ones, and  *)
(* two at the ends of u32 whose offset + size passes 2^32.                 *)
(***************************************************************************)
Kinds == {"RAM", "ROM", "MMIO"}
Names == {"DEV"}
Bytes == {0, 18}
Ranges == {<<U32(s), U32(o)>> : s \in 0..MaxSize, o \in 0..MaxOffset}
          \cup {<<U32Max, U32(1)>>, <<U32(1), U32Max>>}
Addrs == 0..(MaxOffset + MaxSize - 1) \cup {U16Max}
\* The images of at most MaxLen bytes; for load, also two of 2^32 bytes and
\* more, whose length `as u32` cuts to 0 and 1.
ShortImages == {VecOf(s) : s \in UNION {[1..n -> Bytes] : n \in 0..MaxLen}}
Images == ShortImages
          \cup {VecZero(<<Limb, 0>>), [len |-> <<Limb, 1>>, nz |-> {<<0, 18>>}]}

(***************************************************************************)
(* State.  devices is the router's entry list, dev a device used on its    *)
(* own; last is the call made last with its result, and aborted holds once *)
(* a call has panicked.                                                    *)
(***************************************************************************)
\* In the actions below, \E x \in {call} names the outcome x of the call.
Call(op, addr, val, image, res) ==
    [op |-> op, addr |-> addr, val |-> val, image |-> image, res |-> res]

NoCall == Call("none", 0, 0, <<>>, Ok(0))

NoDevice == RAM_new(VecZero(U32(0)), U32(0), U32(0))

Init ==
    /\ devices = MemoryMap_new
    /\ dev = NoDevice
    /\ cpu = CPU_new
    /\ last = NoCall
    /\ aborted = FALSE
    /\ overflow_checks \in BOOLEAN

Create(name, memory_type, size, offset) ==
    \E c \in {create(devices, name, memory_type, size, offset, overflow_checks)} :
    /\ ~aborted
    /\ count(c.devs) <= MaxEntries
    /\ devices' = c.devs
    /\ last' = Call("create", 0, 0, <<>>, c.res)
    /\ aborted' = (c.res.tag = "Panic")
    /\ UNCHANGED <<dev, cpu, overflow_checks>>

Read(address) ==
    \E r \in {read(devices, address, overflow_checks)} :
    /\ ~aborted
    /\ last' = Call("read", address, 0, <<>>, r)
    /\ aborted' = (r.tag = "Panic")
    /\ UNCHANGED <<devices, dev, cpu, overflow_checks>>

Write(address, value) ==
    \E w \in {write(devices, address, value, overflow_checks)} :
    /\ ~aborted
    /\ devices' = w.devs
    /\ last' = Call("write", address, value, <<>>, w.res)
    /\ aborted' = (w.res.tag = "Panic")
    /\ UNCHANGED <<dev, cpu, overflow_checks>>

PrintTable ==
    \E p \in {print_table(devices, overflow_checks)} :
    /\ ~aborted
    /\ last' = Call("print_table", 0, 0, <<>>, p)
    /\ aborted' = (p.tag = "Panic")
    /\ UNCHANGED <<devices, dev, cpu, overflow_checks>>

Next ==
    \/ \E n \in Names, k \in Kinds, r \in Ranges : Create(n, k, r[1], r[2])
    \/ \E a \in Addrs : Read(a)
    \/ \E a \in Addrs, v \in Bytes : Write(a, v)
    \/ PrintTable

Spec == Init /\ [][Next]_vars

(***************************************************************************)
(* A device on its own, built by ROM::new or RAM::new from an image.       *)
(***************************************************************************)
DevInit ==
    /\ devices = MemoryMap_new
    /\ \E img \in ShortImages, r \in Ranges :
          dev \in {ROM_new(img, r[1], r[2]), RAM_new(img, r[1], r[2])}
    /\ cpu = CPU_new
    /\ last = NoCall
    /\ aborted = FALSE
    /\ overflow_checks \in BOOLEAN

DevRead(address) ==
    \E r \in {Memory_read(dev, address, overflow_checks)} :
    /\ ~aborted
    /\ last' = Call("read", address, 0, <<>>, r)
    /\ aborted' = (r.tag = "Panic")
    /\ UNCHANGED <<devices, dev, cpu, overflow_checks>>

DevWrite(address, value) ==
    \E w \in {Memory_write(dev, address, value, overflow_checks)} :
    /\ ~aborted
    /\ dev' = w.dev
    /\ last' = Call("write", address, value, <<>>, w.res)
    /\ aborted' = (w.res.tag = "Panic")
    /\ UNCHANGED <<devices, cpu, overflow_checks>>

DevLoad(image) ==
    \E l \in {Memory_load(dev, image)} :
    /\ ~aborted
    /\ dev' = l.dev
    /\ last' = Call("load", 0, 0, image, l.res)
    /\ aborted' = (l.res.tag = "Panic")
    /\ UNCHANGED <<devices, cpu, overflow_checks>>

\* dev[index]
DevIndex(index) ==
    \E r \in {Device_index(dev, index, overflow_checks)} :
    /\ ~aborted
    /\ last' = Call("index", index, 0, <<>>, r)
    /\ aborted' = (r.tag = "Panic")
    /\ UNCHANGED <<devices, dev, cpu, overflow_checks>>

\* dev[index] = value; only RAM implements IndexMut.
DevIndexMut(index, value) ==
    \E w \in {RAM_index_mut(dev, index, value, overflow_checks)} :
    /\ ~aborted
    /\ dev.kind = "RAM"
    /\ dev' = w.dev
    /\ last' = Call("index_mut", index, value, <<>>, w.res)
    /\ aborted' = (w.res.tag = "Panic")
    /\ UNCHANGED <<devices, cpu, overflow_checks>>

DevNext ==
    \/ \E a \in Addrs : DevRead(a)
    \/ \E a \in Addrs, v \in Bytes : DevWrite(a, v)
    \/ \E img \in Images : DevLoad(img)
    \/ \E a \in Addrs : DevIndex(a)
    \/ \E a \in Addrs, v \in Bytes : DevIndexMut(a, v)

DevSpec == DevInit /\ [][DevNext]_vars

(***************************************************************************)
(* The emulator: devices is its memory_map, cpu its CPU.  Emulator::new    *)
(* gives the state Init describes.  Reads and writes go to the memory_map  *)
(* as in tests::emulator, at the last address of the RAM, the first of the *)
(* IO range, and the first and last of the ROM.                            *)
(***************************************************************************)
EmuAddrs == {16383, 16384, 32768, U16Max}
RegisterValues(r) == IF r = "pc" THEN {0, 4660} ELSE Bytes

EmuInit ==
    /\ ~aborted
    /\ \E c \in {Emulator_init(devices, overflow_checks)} :
         /\ devices' = c.devs
         /\ last' = Call("init", 0, 0, <<>>, c.res)
         /\ aborted' = (c.res.tag = "Panic")
    /\ UNCHANGED <<dev, cpu, overflow_checks>>

\* A register of the CPU is set, as an executing CPU does.
CpuSet(r, value) ==
    /\ ~aborted
    /\ cpu' = Register_set(cpu, r, value)
    /\ last' = Call("set", 0, value, <<>>, Ok(0))
    /\ UNCHANGED <<devices, dev, aborted, overflow_checks>>

WarmReset ==
    /\ ~aborted
    /\ cpu' = Emulator_warm_reset(cpu)
    /\ last' = Call("warm_reset", 0, 0, <<>>, Ok(0))
    /\ UNCHANGED <<devices, dev, aborted, overflow_checks>>

ColdReset ==
    /\ ~aborted
    /\ \E c \in {Emulator_cold_reset(cpu, devices, overflow_checks)} :
         /\ devices' = c.devs
         /\ cpu' = c.cpu
         /\ last' = Call("cold_reset", 0, 0, <<>>, c.res)
         /\ aborted' = (c.res.tag = "Panic")
    /\ UNCHANGED <<dev, overflow_checks>>

\* The emulator through its own operations and its memory_map.
EmuNext ==
    \/ EmuInit
    \/ \E a \in EmuAddrs : Read(a)
    \/ \E a \in EmuAddrs, v \in Bytes : Write(a, v)
    \/ WarmReset
    \/ ColdReset

EmuSpec == Init /\ [][EmuNext]_vars

\* The emulator with a CPU whose registers are written, up to a warm reset.
\* A cold reset adds no state of devices and cpu to these: it leaves what
\* writes of 0 followed by a warm reset leave.
CpuNext ==
    \/ EmuInit
    \/ \E a \in EmuAddrs : Read(a)
    \/ \E a \in EmuAddrs, v \in Bytes : Write(a, v)
    \/ \E r \in Registers : \E v \in RegisterValues(r) : CpuSet(r, v)
    \/ WarmReset

CpuSpec == Init /\ [][CpuNext]_vars

(***************************************************************************)
(* Ranges as sets of addresses, exact (no wrap): [offset, offset + size).  *)
(***************************************************************************)
End(size, offset) == Sum(offset, size)

\* The address a32 lies in [offset, offset + size).
Inside(a32, size, offset) == Le(offset, a32) /\ Lt(a32, End(size, offset))

\* [o1, o1 + s1) and [o2, o2 + s2) share an address.
Share(s1, o1, s2, o2) ==
    /\ Lt(o1, End(s1, o1)) /\ Lt(o1, End(s2, o2))
    /\ Lt(o2, End(s1, o1)) /\ Lt(o2, End(s2, o2))

\* The entries whose range holds the address a, and the first of them.
Holders(devs, a) ==
    {i \in 1..Len(devs) : Inside(U32(a), devs[i].size, devs[i].offset)}
Owner(devs, a) == CHOOSE i \in Holders(devs, a) : \A j \in Holders(devs, a) : i <= j

(***************************************************************************)
(* C1: in every state reached by create calls, the ranges of any two       *)
(* distinct registered entries share no address.                           *)
(***************************************************************************)
C1_NoOverlap ==
    \A i, j \in 1..Len(devices) :
        i # j => ~Share(devices[i].size, devices[i].offset,
                        devices[j].size, devices[j].offset)

(***************************************************************************)
(* C2: a create whose range shares an address with a registered entry      *)
(* returns Err(Overlap), and leaves count() and the read of every address  *)
(* as they were.                                                           *)
(***************************************************************************)
C2_IntersectingCreateRejected ==
    ~aborted =>
    \A n \in Names, k \in Kinds, r \in Ranges :
        (\E i \in 1..Len(devices) :
             Share(r[1], r[2], devices[i].size, devices[i].offset))
        => LET c == create(devices, n, k, r[1], r[2], overflow_checks) IN
           /\ c.res = Err("Overlap")
           /\ count(c.devs) = count(devices)
           /\ \A a \in Addrs : read(c.devs, a, overflow_checks)
                               = read(devices, a, overflow_checks)

(***************************************************************************)
(* C3: read and write at an address in no registered entry's range return  *)
(* Err(Unmapped) and change no state; so does every address of an empty    *)
(* router, and so does a write into the gap between two devices.           *)
(***************************************************************************)
C3_UnmappedOutsideRanges ==
    \A a \in Addrs :
        Holders(devices, a) = {}
        => /\ read(devices, a, overflow_checks) = Err("Unmapped")
           /\ \A v \in Bytes :
                write(devices, a, v, overflow_checks)
                = [res |-> Err("Unmapped"), devs |-> devices]
           /\ (last.op \in {"read", "write"} /\ last.addr = a)
              => last.res = Err("Unmapped")

\* A write into the gap between two registered devices was answered Unmapped.
C3_Witness ==
    /\ last.op = "write"
    /\ last.res = Err("Unmapped")
    /\ Len(devices) = 2
    /\ Lt(U32(0), devices[1].size)
    /\ Lt(U32(0), devices[2].size)
    /\ Le(End(devices[1].size, devices[1].offset), U32(last.addr))
    /\ Lt(U32(last.addr), devices[2].offset)
    /\ devices[2].offset[1] = 0

(***************************************************************************)
(* C4: on a RAM device, and through the router at an address inside a      *)
(* RAM-backed entry, write(a, v) at an in-range address returns Ok and the *)
(* read(a) that follows returns Ok(v).  Stated of the state a write ends   *)
(* in: dev (DevSpec) or devices (Spec) after the write recorded in last.   *)
(***************************************************************************)
C4_WriteThenRead ==
    last.op = "write" =>
    /\ (dev.kind = "RAM" /\ Inside(U32(last.addr), dev.size, dev.offset))
       => /\ last.res = Ok(0)
          /\ RAM_read(dev, last.addr, overflow_checks) = Ok(last.val)
    /\ (Holders(devices, last.addr) # {}
        /\ devices[Owner(devices, last.addr)].device.kind = "RAM")
       => /\ last.res = Ok(0)
          /\ read(devices, last.addr, overflow_checks) = Ok(last.val)

(***************************************************************************)
(* C5: on a ROM device write(a, v) returns Ok for every address and leaves *)
(* the storage as it was; through the router a write to an address inside  *)
(* a ROM entry returns Ok and leaves the read of that address unchanged.   *)
(***************************************************************************)
C5_RomWriteIgnored ==
    [][ /\ \A i \in 1..Len(devices), a \in Addrs, v \in Bytes :
             devices[i].device.kind = "ROM"
             => ROM_write(devices[i].device, a, v)
                = [res |-> Ok(0), dev |-> devices[i].device]
        /\ (last'.op = "write"
            /\ \E i \in 1..Len(devices) :
                 /\ devices[i].device.kind = "ROM"
                 /\ Inside(U32(last'.addr), devices[i].size, devices[i].offset))
           => /\ last'.res = Ok(0)
              /\ read(devices', last'.addr, overflow_checks)
                 = read(devices, last'.addr, overflow_checks) ]_vars

(***************************************************************************)
(* C6: on a device built by its constructor, read(a) returns Ok(the byte   *)
(* at index a - base_offset) when base_offset <= a < base_offset + size,   *)
(* and Err(OutOfBounds) otherwise.                                         *)
(***************************************************************************)
C6_ReadIffInRange ==
    last.op = "read" =>
    last.res = IF Inside(U32(last.addr), dev.size, dev.offset)
               THEN Ok(VecGet(dev.data, last.addr - dev.offset[2]))
               ELSE Err("OutOfBounds")

(***************************************************************************)
(* C7: load of an image no longer than size returns Ok, and afterwards     *)
(* read(base_offset + i) is image[i] below the image's length and 0 from   *)
(* there up to size, whatever the storage held before.                     *)
(***************************************************************************)
C7_LoadReplacesAndPads ==
    (last.op = "load" /\ Le(last.image.len, dev.size)) =>
    /\ last.res = Ok(0)
    /\ \A a \in Addrs :
         Inside(U32(a), dev.size, dev.offset)
         => LET i == a - dev.offset[2] IN
            Memory_read(dev, a, overflow_checks)
            = Ok(IF Lt(U32(i), last.image.len)
                 THEN VecGet(last.image, i) ELSE 0)

(***************************************************************************)
(* C8: load of an image longer than size returns Err(OutOfBounds) and the  *)
(* device's storage is byte for byte what it was.                          *)
(***************************************************************************)
C8_LongImageRejected ==
    \A img \in Images :
        Lt(dev.size, img.len)
        => /\ Memory_load(dev, img) = [res |-> Err("OutOfBounds"), dev |-> dev]
           /\ (last.op = "load" /\ last.image = img)
              => last.res = Err("OutOfBounds")

(***************************************************************************)
(* C9: at an address inside a registered entry's range, the router's read  *)
(* and write return what the owning device's own read and write return,    *)
(* and that is never Unmapped nor OutOfBounds.                             *)
(***************************************************************************)
C9_DispatchToOwner ==
    ~aborted =>
    \A a \in Addrs :
        Holders(devices, a) # {}
        => LET d == devices[Owner(devices, a)].device
               r == read(devices, a, overflow_checks) IN
           /\ r = Memory_read(d, a, overflow_checks)
           /\ r.err \notin {"Unmapped", "OutOfBounds"}
           /\ (last.op = "read" /\ last.addr = a) => last.res = r
           /\ \A v \in Bytes :
                LET w == write(devices, a, v, overflow_checks) IN
                /\ w.res = Memory_write(d, a, v, overflow_checks).res
                /\ w.res.err \notin {"Unmapped", "OutOfBounds"}

(***************************************************************************)
(* C10: no call of the Result-returning API aborts the program: every      *)
(* failure comes back as an Err value.                                     *)
(***************************************************************************)
C10_NoAbort == ~aborted /\ last.res.tag # "Panic"

(***************************************************************************)
(* C11: the indexed access device[index] (and device[index] = v on RAM)    *)
(* aborts whenever index is outside [base_offset, base_offset + size);     *)
(* inside that range it reads the byte read(index) returns, and writes as  *)
(* write(index, v) does.                                                   *)
(***************************************************************************)
C11_IndexedAccess ==
    [][ /\ last'.op = "index"
           => IF Inside(U32(last'.addr), dev.size, dev.offset)
              THEN last'.res = Memory_read(dev, last'.addr, overflow_checks)
              ELSE last'.res.tag = "Panic"
        /\ last'.op = "index_mut"
           => IF Inside(U32(last'.addr), dev.size, dev.offset)
              THEN [res |-> last'.res, dev |-> dev']
                   = Memory_write(dev, last'.addr, last'.val, overflow_checks)
              ELSE last'.res.tag = "Panic" ]_vars

(***************************************************************************)
(* C12: after construction from any image, and after any calls of write    *)
(* and load, the length of a device's storage equals its size.             *)
(***************************************************************************)
C12_StorageLengthIsSize == dev.data.len = dev.size

(***************************************************************************)
(* C13: after a successful create(name, kind, size, base_offset) the entry *)
(* registered last holds a device whose type tag is kind (RAM, ROM or      *)
(* MMIO), of capacity size, whose read returns Ok(0) at every address of   *)
(* [base_offset, base_offset + size).                                      *)
(***************************************************************************)
C13_CreatedAsRequested ==
    ~aborted =>
    \A n \in Names, k \in Kinds, r \in Ranges :
        LET c == create(devices, n, k, r[1], r[2], overflow_checks) IN
        c.res = Ok(0)
        => LET e == c.devs[Len(c.devs)] IN
           /\ MemoryMapEntry_device_type(e) = k
           /\ e.size = r[1]
           /\ e.device.size = r[1]
           /\ e.device.data.len = r[1]
           /\ \A a \in Addrs :
                Inside(U32(a), r[1], r[2])
                => Memory_read(e.device, a, overflow_checks) = Ok(0)

(***************************************************************************)
(* C14: warm_reset, from any state of the emulator, leaves all six         *)
(* registers 0 and the memory map as it was: count() and the read of every *)
(* address are the same before and after.                                  *)
(***************************************************************************)
C14_WarmResetKeepsMemory ==
    [][ last'.op = "warm_reset"
        => /\ \A r \in Registers : cpu'[r] = 0
           /\ count(devices') = count(devices)
           /\ \A a \in EmuAddrs \cup Addrs :
                read(devices', a, overflow_checks)
                = read(devices, a, overflow_checks) ]_vars

\* A warm reset has left a byte written to the RAM in place.
C14_Witness ==
    /\ last.op = "warm_reset"
    /\ cpu = CPU_new
    /\ count(devices) = 3
    /\ read(devices, 16383, overflow_checks) = Ok(18)

(***************************************************************************)
(* C15: once init has returned, cold_reset from any state reached by reads *)
(* and writes completes without aborting, leaves every address of          *)
(* [0x0000, 0x4000) reading 0 and the six registers 0, and leaves the read *)
(* of every address of [0x4000, 0x10000) as it was.                        *)
(***************************************************************************)
C15_ColdResetClearsRam ==
    [][ (last'.op = "cold_reset" /\ count(devices) = 3)
        => /\ last'.res = Ok(0)
           /\ ~aborted'
           /\ \A a \in {0, 1, 8192, 16382, 16383} :
                read(devices', a, overflow_checks) = Ok(0)
           /\ devices'[1].device.data = VecZero(U32(16384))
           /\ \A r \in Registers : cpu'[r] = 0
           /\ \A a \in {16384, 16385, 32767, 32768, 49152, U16Max} :
                read(devices', a, overflow_checks)
                = read(devices, a, overflow_checks)
           /\ devices'[2] = devices[2]
           /\ devices'[3] = devices[3] ]_vars

\* A cold reset has cleared a RAM that held a byte and left the IO range's.
C15_Witness ==
    /\ last.op = "cold_reset"
    /\ last.res = Ok(0)
    /\ count(devices) = 3
    /\ read(devices, 16383, overflow_checks) = Ok(0)
    /\ read(devices, 16384, overflow_checks) = Ok(18)

(***************************************************************************)
(* C16: the entry list is append-only.  count() never decreases; a         *)
(* successful create adds exactly one entry, after the existing ones;      *)
(* read, write and a failed create leave count() as it was; the name, size *)
(* and offset of a registered entry, and so the entries' order, never      *)
(* change.                                                                 *)
(***************************************************************************)
C16_AppendOnly ==
    [][ /\ count(devices') >= count(devices)
        /\ (last'.op = "create" /\ last'.res = Ok(0))
           => count(devices') = count(devices) + 1
        /\ (last'.op \in {"read", "write", "print_table"}
            \/ (last'.op = "create" /\ last'.res # Ok(0)))
           => count(devices') = count(devices)
        /\ \A i \in 1..Len(devices) :
             /\ devices'[i].name = devices[i].name
             /\ devices'[i].size = devices[i].size
             /\ devices'[i].offset = devices[i].offset ]_vars

\* A second entry was appended behind a first one of another range.
C16_Witness ==
    /\ last.op = "create"
    /\ last.res = Ok(0)
    /\ count(devices) = 2
    /\ devices[1].offset # devices[2].offset

(***************************************************************************)
(* C17: on a RAM device, write(a, v) at an address outside                 *)
(* [base_offset, base_offset + size) returns Err(OutOfBounds) and leaves   *)
(* the storage, and so the read of every address, as it was.               *)
(***************************************************************************)
C17_RamWriteOutOfBounds ==
    [][ (/\ last'.op = "write"
         /\ dev.kind = "RAM"
         /\ ~Inside(U32(last'.addr), dev.size, dev.offset))
        => /\ last'.res = Err("OutOfBounds")
           /\ dev'.data = dev.data
           /\ \A a \in Addrs :
                Memory_read(dev', a, overflow_checks)
                = Memory_read(dev, a, overflow_checks) ]_vars

\* A write just past the end of a RAM that holds a byte was refused.
C17_Witness ==
    /\ last.op = "write"
    /\ last.res = Err("OutOfBounds")
    /\ dev.kind = "RAM"
    /\ dev.data.nz # {}
    /\ U32(last.addr) = End(dev.size, dev.offset)
    /\ last.val # 0

(***************************************************************************)
(* C18: insert returns Err(Overlap) exactly when some existing entry e has *)
(* (a) e.offset <= offset < e.offset + e.size or                           *)
(* (b) e.offset < offset + size <= e.offset + e.size,                      *)
(* and otherwise appends the entry and returns Ok.                         *)
(***************************************************************************)
CheckA(size, offset, e) ==
    Le(e.offset, offset) /\ Lt(offset, End(e.size, e.offset))
CheckB(size, offset, e) ==
    Lt(e.offset, End(size, offset))
    /\ Le(End(size, offset), End(e.size, e.offset))

C18_OverlapExactlyOnChecks ==
    ~aborted =>
    \A n \in Names, r \in Ranges :
    \A d \in {ROM_new(VecZero(r[1]), r[1], r[2]),
               RAM_new(VecZero(r[1]), r[1], r[2])} :
        LET c == insert(devices, n, d, r[1], r[2], overflow_checks) IN
        IF \E i \in 1..Len(devices) :
              CheckA(r[1], r[2], devices[i]) \/ CheckB(r[1], r[2], devices[i])
        THEN c = [res |-> Err("Overlap"), devs |-> devices]
        ELSE c = [res |-> Ok(0),
                  devs |-> Append(devices,
                                  MemoryMapEntry_new(n, d, r[1], r[2]))]

(***************************************************************************)
(* C19: create of a range of size at least 1 that shares no address with   *)
(* a registered entry's range returns Ok, a range adjacent to an existing  *)
(* one included; so the layout RAM [0x0000, 0x4000), IO [0x4000, 0x8000),  *)
(* ROM [0x8000, 0x10000) registers without error in that order.            *)
(***************************************************************************)
C19_DisjointCreateAccepted ==
    ~aborted =>
    /\ \A n \in Names, k \in Kinds, r \in Ranges :
          (/\ Lt(U32(0), r[1])
           /\ \A i \in 1..Len(devices) :
                ~Share(r[1], r[2], devices[i].size, devices[i].offset))
          => create(devices, n, k, r[1], r[2], overflow_checks).res = Ok(0)
    /\ devices = MemoryMap_new
       => /\ Emulator_init(devices, overflow_checks).res = Ok(0)
          /\ count(Emulator_init(devices, overflow_checks).devs) = 3

(***************************************************************************)
(* C20: overlap detection does not depend on the order of registration.    *)
(* From an empty router, create(A) then create(B) both return Ok exactly   *)
(* when create(B) then create(A) both do, and when they do, read and write *)
(* give the same result at every address in either order.                  *)
(***************************************************************************)
BothOk(devs, kA, A, kB, B, checks) ==
    LET first == create(devs, "DEV", kA, A[1], A[2], checks)
        second == create(first.devs, "DEV", kB, B[1], B[2], checks) IN
    [ok |-> first.res = Ok(0) /\ second.res = Ok(0), devs |-> second.devs]

C20_OrderIndependent ==
    devices = MemoryMap_new =>
    \A A \in Ranges, B \in Ranges, kA \in Kinds, kB \in Kinds :
        LET ab == BothOk(devices, kA, A, kB, B, overflow_checks)
            ba == BothOk(devices, kB, B, kA, A, overflow_checks) IN
        /\ ab.ok <=> ba.ok
        /\ (ab.ok /\ ba.ok)
           => \A a \in Addrs :
                /\ read(ab.devs, a, overflow_checks)
                   = read(ba.devs, a, overflow_checks)
                /\ \A v \in Bytes :
                     write(ab.devs, a, v, overflow_checks).res
                     = write(ba.devs, a, v, overflow_checks).res

(***************************************************************************)
(* C21: a write(a, v) that returns Ok changes the read of address a only:  *)
(* the read of every other address is the same before and after; and a     *)
(* read changes no state.                                                  *)
(***************************************************************************)
C21_WriteChangesOneAddress ==
    [][ /\ (last'.op = "write" /\ last'.res = Ok(0))
           => \A b \in Addrs \ {last'.addr} :
                read(devices', b, overflow_checks)
                = read(devices, b, overflow_checks)
        /\ last'.op = "read"
           => /\ devices' = devices
              /\ dev' = dev
              /\ cpu' = cpu ]_vars

\* A byte was written next to an address that holds another byte.
C21_Witness ==
    /\ last.op = "write"
    /\ last.res = Ok(0)
    /\ last.val # 0
    /\ read(devices, last.addr, overflow_checks) = Ok(last.val)
    /\ \E b \in Addrs \ {last.addr} :
         read(devices, b, overflow_checks) = Ok(last.val)
    /\ \E b \in Addrs \ {last.addr} :
         read(devices, b, overflow_checks) = Ok(0)

(***************************************************************************)
(* C22: through the router's operations the contents of a ROM entry never  *)
(* change: in every reachable state the storage of a ROM entry is all      *)
(* zero, and read at an address whose first matching entry is a ROM        *)
(* returns Ok(0).                                                          *)
(***************************************************************************)
C22_RomStaysZero ==
    /\ \A i \in 1..Len(devices) :
         devices[i].device.kind = "ROM"
         => devices[i].device.data = VecZero(devices[i].size)
    /\ \A a \in Addrs :
         LET m == FirstMatch(devices, a, overflow_checks, 1) IN
         (m.hit = "entry" /\ devices[m.at].device.kind = "ROM")
         => /\ read(devices, a, overflow_checks) = Ok(0)
            /\ (last.op = "read" /\ last.addr = a) => last.res = Ok(0)

\* A nonzero byte was written to an address that a ROM answers.
C22_Witness ==
    /\ last.op = "write"
    /\ last.res = Ok(0)
    /\ last.val # 0
    /\ LET m == FirstMatch(devices, last.addr, overflow_checks, 1) IN
       /\ m.hit = "entry"
       /\ devices[m.at].device.kind = "ROM"
    /\ read(devices, last.addr, overflow_checks) = Ok(0)

====
